---- MODULE Spec2Model ----
(***************************************************************************)
(* Model of data_utils/vocab.py: class Vocab, built without a pretrained   *)
(* language model and without pretrained vectors.                          *)
(*                                                                         *)
(* A Python str is a sequence of code points, so that str comparison,      *)
(* " ".join, str.strip and str.split are computed and not assumed.  A      *)
(* Python list and a 1-d tensor are sequences (position p of the source is *)
(* element p + 1 here); the dict self.itos is a function on 0 .. n-1; the  *)
(* dict self.stoi is a function on a set of strs; a Counter is the         *)
(* sequence of its <<key, count>> items in insertion order.  None is the   *)
(* empty tuple and an optional integer n is <<n>>.                         *)
(***************************************************************************)
EXTENDS Integers, Sequences, FiniteSets, TLC

\* ------------------------------------------------------------------ bounds
\* annotations read by make_vocab (over all the json files)
MaxAnns == 2
\* tokens in all their preprocessed captions together
MaxTokens == 4
\* tokens in a caption handed to encode_caption
MaxEncodeLen == 3
\* elements (rows x columns) of a tensor handed directly to decode_caption
MaxCells == 2

\* ------------------------------------------------------------------ values
None == <<>>

\* default special tokens of __init__: "<pad>", "<bos>", "<eos>", "<unk>"
PAD == <<60, 112, 97, 100, 62>>
BOS == <<60, 98, 111, 115, 62>>
EOS == <<60, 101, 111, 115, 62>>
UNK == <<60, 117, 110, 107, 62>>

\* tokens preprocess_caption may return: "a", "a b" (a multi-syllable word
\* kept as one token) and "<unk>" (a caption that spells a special token)
CaptionTokens == {<<97>>, <<97, 32, 98>>, UNK}

\* a token no caption holds: "b"
OtherToken == <<98>>

\* characters str.strip() and str.split() treat as whitespace (ASCII part)
Whitespace == {9, 10, 11, 12, 13, 28, 29, 30, 31, 32}

SeqsUpTo(S, n) == UNION {[1..k -> S] : k \in 0..n}

RECURSIVE SumSeq(_)
SumSeq(ns) == IF ns = <<>> THEN 0 ELSE Head(ns) + SumSeq(Tail(ns))

\* toks cut into consecutive captions of the given lengths
RECURSIVE Cut(_, _)
Cut(toks, lens) ==
    IF lens = <<>> THEN <<>>
    ELSE <<SubSeq(toks, 1, Head(lens))>>
         \o Cut(SubSeq(toks, Head(lens) + 1, Len(toks)), Tail(lens))

\* the captions of all annotations of all files of json_dirs, in reading
\* order, each already passed through preprocess_caption (a caption may be empty)
AnnotationLists ==
    { Cut(p[1], p[2]) :
        p \in { q \in SeqsUpTo(CaptionTokens, MaxTokens) \X SeqsUpTo(0..MaxTokens, MaxAnns) :
                  SumSeq(q[2]) = Len(q[1]) } }

\* arguments of __init__
MinFreqs == {0, 1, 2}
MaxSizes == {None, <<6>>}
SpecialNames ==
    { [padding_token |-> PAD, bos_token |-> BOS, eos_token |-> EOS, unk_token |-> UNK],
      [padding_token |-> PAD, bos_token |-> EOS, eos_token |-> EOS, unk_token |-> UNK] }

\* ------------------------------------------------------------------ str
\* s < t for Python strs: lexicographic by code point
RECURSIVE StrLess(_, _)
StrLess(s, t) ==
    IF t = <<>> THEN FALSE
    ELSE IF s = <<>> THEN TRUE
    ELSE IF Head(s) # Head(t) THEN Head(s) < Head(t)
    ELSE StrLess(Tail(s), Tail(t))

\* sep.join(words)
RECURSIVE StrJoin(_, _)
StrJoin(sep, words) ==
    IF words = <<>> THEN <<>>
    ELSE IF Len(words) = 1 THEN words[1]
    ELSE words[1] \o sep \o StrJoin(sep, Tail(words))

\* s.strip()
RECURSIVE LStrip(_)
LStrip(s) == IF s # <<>> /\ Head(s) \in Whitespace THEN LStrip(Tail(s)) ELSE s
RECURSIVE RStrip(_)
RStrip(s) ==
    IF s # <<>> /\ s[Len(s)] \in Whitespace THEN RStrip(SubSeq(s, 1, Len(s) - 1)) ELSE s
StrStrip(s) == RStrip(LStrip(s))

\* s.split(): the maximal runs of non-whitespace characters
RECURSIVE SplitWalk(_, _, _)
SplitWalk(s, cur, out) ==
    IF s = <<>> THEN (IF cur = <<>> THEN out ELSE Append(out, cur))
    ELSE IF Head(s) \in Whitespace
         THEN SplitWalk(Tail(s), <<>>, IF cur = <<>> THEN out ELSE Append(out, cur))
         ELSE SplitWalk(Tail(s), Append(cur, Head(s)), out)
StrSplit(s) == SplitWalk(s, <<>>, <<>>)

InList(x, list) == \E i \in 1..Len(list) : list[i] = x

\* ------------------------------------------------------------------ Counter
CounterGet(counter, tok) ==
    LET hits == SelectSeq(counter, LAMBDA item : item[1] = tok)
    IN IF hits = <<>> THEN 0 ELSE hits[1][2]

\* counter[tok] += 1; a new key goes last
CounterInc(counter, tok) ==
    IF \E i \in 1..Len(counter) : counter[i][1] = tok
    THEN [i \in 1..Len(counter) |->
            IF counter[i][1] = tok THEN <<tok, counter[i][2] + 1>> ELSE counter[i]]
    ELSE Append(counter, <<tok, 1>>)

\* Counter.update(iterable)
RECURSIVE CounterUpdate(_, _)
CounterUpdate(counter, caption) ==
    IF caption = <<>> THEN counter
    ELSE CounterUpdate(CounterInc(counter, Head(caption)), Tail(caption))

\* del counter[tok]: Counter.__delitem__ ignores a missing key
CounterDel(counter, tok) == SelectSeq(counter, LAMBDA item : item[1] # tok)

RECURSIVE CounterDelAll(_, _)
CounterDelAll(counter, toks) ==
    IF toks = <<>> THEN counter
    ELSE CounterDelAll(CounterDel(counter, Head(toks)), Tail(toks))

\* ------------------------------------------------------------------ sorting
\* list.sort is stable: an item goes after the items it does not precede
RECURSIVE InsertByWord(_, _)
InsertByWord(sorted, item) ==
    IF sorted = <<>> THEN <<item>>
    ELSE IF StrLess(item[1], Head(sorted)[1]) THEN <<item>> \o sorted
    ELSE <<Head(sorted)>> \o InsertByWord(Tail(sorted), item)

RECURSIVE SortWalkByWord(_, _)
SortWalkByWord(items, sorted) ==
    IF items = <<>> THEN sorted
    ELSE SortWalkByWord(Tail(items), InsertByWord(sorted, Head(items)))

\* faulty variant: the alphabetical pass left out, ties stay in reading order
SortedByWord_skipped(items) == items

\* sorted(counter.items(), key=lambda tup: tup[0])
SortedByWord(items) == SortWalkByWord(items, <<>>)

RECURSIVE InsertByFreq(_, _)
InsertByFreq(sorted, item) ==
    IF sorted = <<>> THEN <<item>>
    ELSE IF item[2] > Head(sorted)[2] THEN <<item>> \o sorted
    ELSE <<Head(sorted)>> \o InsertByFreq(Tail(sorted), item)

RECURSIVE SortWalkByFreq(_, _)
SortWalkByFreq(items, sorted) ==
    IF items = <<>> THEN sorted
    ELSE SortWalkByFreq(Tail(items), InsertByFreq(sorted, Head(items)))

\* words_and_frequencies.sort(key=lambda tup: tup[1], reverse=True)
SortByFreqDesc(items) == SortWalkByFreq(items, <<>>)

\* ------------------------------------------------------------------ make_vocab
RECURSIVE MakeVocabWalk(_, _, _)
MakeVocabWalk(anns, counter, maxlen) ==
    IF anns = <<>> THEN [freqs |-> counter, max_caption_length |-> maxlen]
    ELSE LET caption == Head(anns)
         IN MakeVocabWalk(Tail(anns), CounterUpdate(counter, caption),
                IF Len(caption) + 2 > maxlen THEN Len(caption) + 2 ELSE maxlen)

make_vocab(anns) == MakeVocabWalk(anns, <<>>, 0)

\* ------------------------------------------------------------------ __init__
\* faulty variant: the loop stops at freq <= min_freq
RECURSIVE ItosWalk_atThreshold(_, _, _, _)
ItosWalk_atThreshold(waf, list, min_freq, max_size) ==
    IF waf = <<>> THEN list
    ELSE LET word == Head(waf)[1]
             freq == Head(waf)[2]
         IN IF freq <= min_freq \/ (max_size # None /\ Len(list) = max_size[1])
            THEN list
            ELSE ItosWalk_atThreshold(Tail(waf), Append(list, word), min_freq, max_size)

\* the loop over words_and_frequencies; max_size is None or <<n>>
RECURSIVE ItosWalk(_, _, _, _)
ItosWalk(waf, list, min_freq, max_size) ==
    IF waf = <<>> THEN list
    ELSE LET word == Head(waf)[1]
             freq == Head(waf)[2]
         IN IF freq < min_freq \/ (max_size # None /\ Len(list) = max_size[1])
            THEN list
            ELSE ItosWalk(Tail(waf), Append(list, word), min_freq, max_size)

\* {i: tok for i, tok in enumerate(itos)}
EnumerateDict(list) == [i \in 0..(Len(list) - 1) |-> list[i + 1]]

\* faulty variant: the indices of stoi counted from 1
StoiOf_fromOne(d) ==
    [tok \in {d[i] : i \in DOMAIN d} |->
        1 + CHOOSE i \in DOMAIN d : d[i] = tok /\ \A j \in DOMAIN d : d[j] = tok => j <= i]

\* {tok: i for i, tok in self.itos.items()}: a later item overwrites an earlier one
StoiOf(d) ==
    [tok \in {d[i] : i \in DOMAIN d} |->
        CHOOSE i \in DOMAIN d : d[i] = tok /\ \A j \in DOMAIN d : d[j] = tok => j <= i]

Max(a, b) == IF a >= b THEN a ELSE b

\* the object __init__ leaves behind, or the exception it raises
VocabInit(anns, max_size, min_freq_arg, names) ==
    IF max_size # None
    THEN \* line 45 reads self.itos, an attribute no statement has set yet
         [exc |-> "AttributeError"]
    ELSE LET mv == make_vocab(anns)
             counter == mv.freqs
             min_freq == Max(min_freq_arg, 1)
             words_and_frequencies == SortByFreqDesc(SortedByWord(counter))
             specials == <<names.padding_token, names.bos_token,
                           names.eos_token, names.unk_token>>
             \* the deletions reach the copy only, after the list was taken from it
             counter2 == CounterDelAll(counter, specials)
             list == ItosWalk(words_and_frequencies, specials, min_freq, max_size)
             d == EnumerateDict(list)
             s == StoiOf(d)
         IN [exc |-> "none",
             freqs |-> mv.freqs,
             max_caption_length |-> mv.max_caption_length,
             padding_token |-> names.padding_token,
             bos_token |-> names.bos_token,
             eos_token |-> names.eos_token,
             unk_token |-> names.unk_token,
             itos |-> d,
             stoi |-> s,
             padding_idx |-> s[names.padding_token],
             bos_idx |-> s[names.bos_token],
             eos_idx |-> s[names.eos_token],
             unk_idx |-> s[names.unk_token],
             specials |-> specials]

\* ------------------------------------------------------------------ state
VARIABLES
    pc,                  \* "new" before __init__, "ready" after it, "failed" if it raised
    op,                  \* the call whose outcome the caller holds, or "none"
    args,                \* its arguments
    exc,                 \* the exception it raised, or "none"
    ret,                 \* the value it returned (None when it raised)
    fed,                 \* <<T>> when decode_caption was handed the vector that
                         \* encode_caption(T) had just returned, else None
    freqs, max_caption_length, itos, stoi,
    padding_token, bos_token, eos_token, unk_token,
    padding_idx, bos_idx, eos_idx, unk_idx, specials

attrs == <<freqs, max_caption_length, itos, stoi,
           padding_token, bos_token, eos_token, unk_token,
           padding_idx, bos_idx, eos_idx, unk_idx, specials>>

vars == <<pc, op, args, exc, ret, fed, attrs>>

\* ------------------------------------------------------------------ encode_caption
\* faulty variant: the vector of ones not multiplied by padding_idx
PaddedVec_ones(n, pad) == [i \in 1..n |-> 1]

\* torch.ones(n).long() * padding_idx
PaddedVec(n, pad) == [i \in 1..n |-> 1 * pad]

\* faulty variant: a token past the end of the vector is dropped silently
RECURSIVE EncodeWalk_clipped(_, _, _, _, _)
EncodeWalk_clipped(toks, i, vec, s, unk) ==
    IF toks = <<>> \/ i >= Len(vec) THEN [exc |-> "none", ret |-> vec]
    ELSE EncodeWalk_clipped(Tail(toks), i + 1,
             [vec EXCEPT ![i + 1] =
                 IF Head(toks) \in DOMAIN s THEN s[Head(toks)] ELSE unk],
             s, unk)

\* the loop over enumerate([bos] + caption + [eos]); i is the 0-based position
RECURSIVE EncodeWalk(_, _, _, _, _)
EncodeWalk(toks, i, vec, s, unk) ==
    IF toks = <<>> THEN [exc |-> "none", ret |-> vec]
    ELSE IF i >= Len(vec)
         THEN \* vec[i] = ... past the end of the tensor
              [exc |-> "IndexError", ret |-> None]
         ELSE EncodeWalk(Tail(toks), i + 1,
                  [vec EXCEPT ![i + 1] =
                      IF Head(toks) \in DOMAIN s THEN s[Head(toks)] ELSE unk],
                  s, unk)

encode_caption(caption) ==
    EncodeWalk(<<bos_token>> \o caption \o <<eos_token>>, 0,
               PaddedVec(max_caption_length, padding_idx), stoi, unk_idx)

\* ------------------------------------------------------------------ decode_caption
\* faulty variant: the walk does not stop at eos_idx
RECURSIVE DecodeWalk_noBreak(_, _)
DecodeWalk_noBreak(vec, words) ==
    IF vec = <<>> THEN words
    ELSE DecodeWalk_noBreak(Tail(vec),
             IF ~InList(itos[Head(vec)], specials)
             THEN Append(words, itos[Head(vec)]) ELSE words)

\* the loop over vec.tolist(), up to and including the first eos_idx
RECURSIVE DecodeWalk(_, _)
DecodeWalk(vec, words) ==
    IF vec = <<>> THEN words
    ELSE LET idx == Head(vec)
             words2 == IF ~InList(itos[idx], specials)
                       THEN Append(words, itos[idx]) ELSE words
         IN IF idx = eos_idx THEN words2 ELSE DecodeWalk(Tail(vec), words2)

\* faulty variant: the words joined with no space between them
DecodeRow_noSpace(vec, join_words) ==
    LET caption == StrJoin(<<>>, DecodeWalk(vec, <<>>))
    IN IF join_words THEN caption ELSE StrSplit(StrStrip(caption))

\* one row: " ".join(words), then the str itself or caption.strip().split()
DecodeRow(vec, join_words) ==
    LET caption == StrJoin(<<32>>, DecodeWalk(vec, <<>>))
    IN IF join_words THEN caption ELSE StrSplit(StrStrip(caption))

decode_caption(caption_vecs, join_words) ==
    [r \in 1..Len(caption_vecs) |-> DecodeRow(caption_vecs[r], join_words)]

\* ------------------------------------------------------------------ extend
\* iterating a dict yields its keys in insertion order: the ints 0 .. n-1
DictKeys(d) == [k \in 1..Cardinality(DOMAIN d) |-> k - 1]

RECURSIVE InsertInt(_, _)
InsertInt(sorted, x) ==
    IF sorted = <<>> THEN <<x>>
    ELSE IF x < Head(sorted) THEN <<x>> \o sorted
    ELSE <<Head(sorted)>> \o InsertInt(Tail(sorted), x)

RECURSIVE SortedInts(_)
SortedInts(list) ==
    IF list = <<>> THEN <<>>
    ELSE InsertInt(SortedInts(SubSeq(list, 1, Len(list) - 1)), list[Len(list)])

\* w in d, for an int w and a dict d whose keys are all strs: an int equals no str
IntInStrDict(w, d) == FALSE

\* the loop of extend; self.itos is a dict, which has no append
RECURSIVE ExtendWalk(_, _)
ExtendWalk(words, s) ==
    IF words = <<>> THEN [exc |-> "none"]
    ELSE IF ~IntInStrDict(Head(words), s)
         THEN [exc |-> "AttributeError"]
         ELSE ExtendWalk(Tail(words), s)

extend(v_itos, sort) ==
    ExtendWalk(IF sort THEN SortedInts(DictKeys(v_itos)) ELSE DictKeys(v_itos), stoi)

\* ------------------------------------------------------------------ inputs
\* captions handed to encode_caption
EncodeCaptions == SeqsUpTo(CaptionTokens, MaxEncodeLen)

\* tensors of valid indices handed to decode_caption: bs rows of n columns
Batches ==
    UNION { [1..bs -> [1..n -> DOMAIN itos]] :
            <<bs, n>> \in {p \in (0..MaxCells) \X (0..MaxCells) : p[1] * p[2] <= MaxCells} }

\* the one-row batch holding the vector encode_caption has just returned
EncodedBatch ==
    IF op = "encode_caption" /\ exc = "none" THEN {<<ret>>} ELSE {}


\* vocabularies handed to extend: the object itself, and others built from
\* nothing, from a token of the captions and from a token of no caption
OtherVocabs ==
    { VocabInit(anns, None, 1, [padding_token |-> PAD, bos_token |-> BOS,
                                eos_token |-> EOS, unk_token |-> UNK]).itos :
      anns \in {<<>>, << << <<97>> >> >>, << <<OtherToken>> >>} }

\* ------------------------------------------------------------------ actions
Init ==
    /\ pc = "new"
    /\ op = "none" /\ args = None /\ exc = "none" /\ ret = None /\ fed = None
    /\ freqs = <<>> /\ max_caption_length = 0 /\ itos = <<>> /\ stoi = <<>>
    /\ padding_token = None /\ bos_token = None /\ eos_token = None /\ unk_token = None
    /\ padding_idx = 0 /\ bos_idx = 0 /\ eos_idx = 0 /\ unk_idx = 0
    /\ specials = <<>>

Vocab__init__ ==
    /\ pc = "new"
    /\ \E anns \in AnnotationLists, max_size \in MaxSizes,
          min_freq \in MinFreqs, names \in SpecialNames :
          \E v \in {VocabInit(anns, max_size, min_freq, names)} :
             /\ op' = "__init__"
             /\ args' = [max_size |-> max_size, min_freq |-> min_freq]
             /\ exc' = v.exc
             /\ ret' = None
             /\ fed' = None
             /\ IF v.exc # "none"
                THEN /\ pc' = "failed"
                     /\ UNCHANGED attrs
                ELSE /\ pc' = "ready"
                     /\ freqs' = v.freqs
                     /\ max_caption_length' = v.max_caption_length
                     /\ itos' = v.itos
                     /\ stoi' = v.stoi
                     /\ padding_token' = v.padding_token
                     /\ bos_token' = v.bos_token
                     /\ eos_token' = v.eos_token
                     /\ unk_token' = v.unk_token
                     /\ padding_idx' = v.padding_idx
                     /\ bos_idx' = v.bos_idx
                     /\ eos_idx' = v.eos_idx
                     /\ unk_idx' = v.unk_idx
                     /\ specials' = v.specials

EncodeCaption ==
    /\ pc = "ready" /\ op = "none"
    /\ \E caption \in EncodeCaptions :
          LET r == encode_caption(caption)
          IN /\ op' = "encode_caption"
             /\ args' = [caption |-> caption]
             /\ exc' = r.exc
             /\ ret' = r.ret
    /\ fed' = None
    /\ UNCHANGED <<pc, attrs>>

DecodeCaption ==
    /\ pc = "ready"
    /\ \E caption_vecs \in (IF op = "none" THEN Batches ELSE EncodedBatch),
          join_words \in BOOLEAN :
          /\ op' = "decode_caption"
          /\ args' = [caption_vecs |-> caption_vecs, join_words |-> join_words]
          /\ exc' = "none"
          /\ ret' = decode_caption(caption_vecs, join_words)
          /\ fed' = IF caption_vecs \in EncodedBatch THEN <<args.caption>> ELSE None
    /\ UNCHANGED <<pc, attrs>>

Extend ==
    /\ pc = "ready" /\ op = "none"
    /\ \E v_itos \in {itos} \cup OtherVocabs, sort \in BOOLEAN :
          LET r == extend(v_itos, sort)
          IN /\ op' = "extend"
             /\ args' = [v_itos |-> v_itos, sort |-> sort]
             /\ exc' = r.exc
             /\ ret' = None
    /\ fed' = None
    /\ UNCHANGED <<pc, attrs>>

\* the program is sequential: the caller drops the outcome it holds (a returned
\* value, a caught exception) before it makes a call that does not use it
Resume ==
    /\ pc = "ready" /\ op # "none"
    /\ op' = "none" /\ args' = None /\ exc' = "none" /\ ret' = None /\ fed' = None
    /\ UNCHANGED <<pc, attrs>>

Next == Vocab__init__ \/ EncodeCaption \/ DecodeCaption \/ Extend \/ Resume

Spec == Init /\ [][Next]_vars

\* ------------------------------------------------------------------ properties
ItosTokens == {itos[i] : i \in DOMAIN itos}
Freq(tok) == CounterGet(freqs, tok)
AllTokens == CaptionTokens \cup {OtherToken, PAD, BOS, EOS, UNK}
IsSpecial(tok) == InList(tok, specials)

\* a str that str.split() returns as it is: not empty, no whitespace in it
IsWord(tok) == tok # <<>> /\ \A i \in 1..Len(tok) : tok[i] \notin Whitespace

\* C1: once a Vocab is constructed, and after any calls of extend, stoi and
\* itos are exact inverses: stoi[itos[i]] = i for every index i of itos, and
\* itos[stoi[t]] = t for every token t of stoi; stated here for the case the
\* claim names, four different special tokens of which a caption may hold one.
C1_StoiItosInverse ==
    (pc = "ready" /\ Cardinality({specials[k] : k \in 1..Len(specials)}) = 4) =>
        /\ \A i \in DOMAIN itos : itos[i] \in DOMAIN stoi /\ stoi[itos[i]] = i
        /\ \A t \in DOMAIN stoi : stoi[t] \in DOMAIN itos /\ itos[stoi[t]] = t

\* a cached index and its token: the index is a key of itos, itos maps it to
\* the token and stoi maps the token to it
SpecialIdxValid(idx, tok) ==
    /\ idx \in DOMAIN itos
    /\ itos[idx] = tok
    /\ tok \in DOMAIN stoi
    /\ stoi[tok] = idx

AllSpecialIdxValid ==
    /\ SpecialIdxValid(padding_idx, padding_token)
    /\ SpecialIdxValid(bos_idx, bos_token)
    /\ SpecialIdxValid(eos_idx, eos_token)
    /\ SpecialIdxValid(unk_idx, unk_token)

\* C2 as claimed: after construction the four cached special-token indices are
\* valid (keys of itos that map to their special token) and pairwise distinct,
\* for every choice of special-token names and captions.
C2_SpecialIdxDistinct ==
    pc = "ready" =>
        /\ AllSpecialIdxValid
        /\ Cardinality({padding_idx, bos_idx, eos_idx, unk_idx}) = 4

\* C2 as amended: after construction the four cached special-token indices are
\* valid, and two of them are equal only if the two special-token names are the
\* same string.
C2_SpecialIdxDistinctNames ==
    pc = "ready" =>
        /\ AllSpecialIdxValid
        /\ padding_token # bos_token => padding_idx # bos_idx
        /\ padding_token # eos_token => padding_idx # eos_idx
        /\ padding_token # unk_token => padding_idx # unk_idx
        /\ bos_token # eos_token => bos_idx # eos_idx
        /\ bos_token # unk_token => bos_idx # unk_idx
        /\ eos_token # unk_token => eos_idx # unk_idx

\* C2's case: a caption spelled "<unk>" often enough to move unk_idx past the
\* four reserved places, in a vocabulary whose bos and eos tokens share a name
C2_Witness ==
    pc = "ready" /\ unk_idx > 3 /\ bos_token = eos_token /\ bos_idx = eos_idx

\* decode_caption has just been handed encode_caption(T) as a one-row batch,
\* with join_words=False
RoundTripped ==
    /\ op = "decode_caption" /\ fed # None /\ ~args.join_words
    /\ Len(fed[1]) + 2 <= max_caption_length

\* C3 as claimed: for every token sequence T with len(T)+2 <= max_caption_length,
\* decode_caption of the one-row batch encode_caption(T), join_words=False,
\* returns exactly T.
C3_RoundTripAny == RoundTripped => ret = <<fed[1]>>

\* C3 as amended: the round trip returns exactly T when every token of T is in
\* stoi, is not a special token, is not empty and holds no whitespace, and the
\* bos and eos tokens are different strings.
C3_RoundTrip ==
    ( /\ RoundTripped
      /\ bos_token # eos_token
      /\ \A i \in 1..Len(fed[1]) :
            /\ fed[1][i] \in DOMAIN stoi
            /\ ~IsSpecial(fed[1][i])
            /\ IsWord(fed[1][i]) )
    => ret = <<fed[1]>>

\* C3's case: a caption of two vocabulary words went through encode and decode
C3_Witness ==
    /\ RoundTripped /\ bos_token # eos_token /\ Len(fed[1]) = 2
    /\ \A i \in 1..2 :
          fed[1][i] \in DOMAIN stoi /\ ~IsSpecial(fed[1][i]) /\ IsWord(fed[1][i])
    /\ ret = <<fed[1]>>

\* C4: every vector encode_caption returns has length max_caption_length;
\* position 0 holds bos_idx, positions 1..len(T) the index of each token of T in
\* order (unk_idx for a token absent from stoi), position len(T)+1 eos_idx, and
\* every later position padding_idx.
C4_EncodeLayout ==
    (op = "encode_caption" /\ exc = "none") =>
        LET T == args.caption
        IN /\ Len(ret) = max_caption_length
           /\ Len(T) + 2 <= Len(ret)
           /\ ret[1] = bos_idx
           /\ \A i \in 1..Len(T) :
                 ret[i + 1] = IF T[i] \in DOMAIN stoi THEN stoi[T[i]] ELSE unk_idx
           /\ ret[Len(T) + 2] = eos_idx
           /\ \A p \in (Len(T) + 3)..Len(ret) : ret[p] = padding_idx

\* C4's case: a returned vector with a known token, an unknown one and padding
C4_Witness ==
    /\ op = "encode_caption" /\ exc = "none"
    /\ Len(args.caption) = 2 /\ Len(ret) > 4
    /\ args.caption[1] \in DOMAIN stoi /\ args.caption[2] \notin DOMAIN stoi

\* C5: in a Vocab built without a pretrained language model, every non-special
\* token whose frequency is below max(min_freq, 1) is absent from stoi and itos,
\* and every non-special token whose frequency is at least that threshold is
\* present when no size cap is given.
C5_FrequencyFilter ==
    (op = "__init__" /\ exc = "none") =>
        \A tok \in AllTokens :
            ~IsSpecial(tok) =>
                IF Freq(tok) < Max(args.min_freq, 1)
                THEN tok \notin DOMAIN stoi /\ tok \notin ItosTokens
                ELSE args.max_size = None => (tok \in DOMAIN stoi /\ tok \in ItosTokens)

\* C5's case: min_freq=2 keeps a token seen twice and drops a token seen once
C5_Witness ==
    /\ op = "__init__" /\ exc = "none" /\ args.min_freq = 2
    /\ \E t1, t2 \in CaptionTokens :
          /\ ~IsSpecial(t1) /\ ~IsSpecial(t2)
          /\ Freq(t1) = 2 /\ t1 \in DOMAIN stoi
          /\ Freq(t2) = 1 /\ t2 \notin DOMAIN stoi

\* C6: when max_size is given, construction completes and len(itos) never
\* exceeds max_size.
C6_SizeCap ==
    (op = "__init__" /\ args.max_size # None) =>
        /\ exc = "none"
        /\ pc = "ready"
        /\ Cardinality(DOMAIN itos) <= args.max_size[1]

\* C7: extend(v), sorted or not, with a vocabulary v whose tokens are all in the
\* current mapping completes normally and leaves stoi and itos unchanged.
C7_ExtendIdempotent ==
    [][ ( /\ op' = "extend"
          /\ \A i \in DOMAIN args'.v_itos : args'.v_itos[i] \in DOMAIN stoi )
        => (exc' = "none" /\ itos' = itos /\ stoi' = stoi) ]_vars

\* encode_caption was handed more tokens than a vector holds
Overflowed == op = "encode_caption" /\ Len(args.caption) + 2 > max_caption_length

\* C8 as claimed: encode_caption with len(T)+2 > max_caption_length raises no
\* exception and returns a vector of length max_caption_length.
C8_OverflowSilent ==
    Overflowed => (exc = "none" /\ Len(ret) = max_caption_length)

\* C8 as amended: encode_caption with len(T)+2 > max_caption_length raises
\* IndexError and returns no vector.
C8_OverflowRaises ==
    Overflowed => (exc = "IndexError" /\ ret = None)

\* C8's case: a caption one token too long for the vector
C8_Witness ==
    /\ Overflowed /\ Len(args.caption) + 2 = max_caption_length + 1
    /\ max_caption_length > 2 /\ exc = "IndexError"

\* C9: in a Vocab built without a pretrained language model the tokens after the
\* four special tokens are in descending frequency order, ties in string order:
\* for indices 4 <= i < j, freq(itos[i]) > freq(itos[j]), or the two are equal
\* and itos[i] < itos[j].
C9_IndexOrder ==
    pc = "ready" =>
        \A i, j \in DOMAIN itos :
            (Len(specials) <= i /\ i < j) =>
                \/ Freq(itos[i]) > Freq(itos[j])
                \/ Freq(itos[i]) = Freq(itos[j]) /\ StrLess(itos[i], itos[j])

\* C9's case: three tokens after the specials, one more frequent than the two
\* others, which tie and were first read in the other order
C9_Witness ==
    /\ pc = "ready" /\ Cardinality(DOMAIN itos) = 7
    /\ Freq(itos[4]) > Freq(itos[5]) /\ Freq(itos[5]) = Freq(itos[6])
    /\ \E m, n \in 1..Len(freqs) : m < n /\ freqs[m][1] = itos[6] /\ freqs[n][1] = itos[5]

\* the tokens of the positions of a row strictly before its first eos_idx (of
\* the whole row without one), special tokens left out
FirstEos(row) ==
    IF \E p \in 1..Len(row) : row[p] = eos_idx
    THEN CHOOSE p \in 1..Len(row) :
            row[p] = eos_idx /\ \A q \in 1..(p - 1) : row[q] # eos_idx
    ELSE Len(row) + 1
Emitted(row) ==
    SelectSeq([p \in 1..(FirstEos(row) - 1) |-> itos[row[p]]], LAMBDA tok : ~IsSpecial(tok))

\* every token of a list split at its whitespace, in order
RECURSIVE WordsOf(_)
WordsOf(toks) == IF toks = <<>> THEN <<>> ELSE StrSplit(Head(toks)) \o WordsOf(Tail(toks))

\* C10 as claimed: decode_caption returns one result per row, in row order, and
\* each result (token-list form) is exactly the sequence of itos[idx] of the
\* positions strictly before the row's first eos_idx, special tokens removed.
C10_DecodeTokens ==
    (op = "decode_caption" /\ ~args.join_words) =>
        /\ Len(ret) = Len(args.caption_vecs)
        /\ \A r \in 1..Len(ret) : ret[r] = Emitted(args.caption_vecs[r])

\* C10 as amended: decode_caption returns one result per row, in row order; each
\* result (token-list form) is that sequence of tokens provided none of them is
\* empty or holds whitespace, and in every case it is their whitespace-separated
\* words in order.
C10_DecodeWords ==
    (op = "decode_caption" /\ ~args.join_words) =>
        /\ Len(ret) = Len(args.caption_vecs)
        /\ \A r \in 1..Len(ret) :
              LET toks == Emitted(args.caption_vecs[r])
              IN /\ ret[r] = WordsOf(toks)
                 /\ (\A i \in 1..Len(toks) : IsWord(toks[i])) => ret[r] = toks

\* C10's case: a row whose eos comes first, a word after it, and a second row
\* that is a single word
C10_Witness ==
    /\ op = "decode_caption" /\ ~args.join_words /\ fed = None
    /\ \E row \in {args.caption_vecs[r] : r \in 1..Len(args.caption_vecs)} :
          /\ Len(row) = 2 /\ row[1] = eos_idx
          /\ ~IsSpecial(itos[row[2]]) /\ IsWord(itos[row[2]])
    /\ ret = << <<>> >>

====
